---- MODULE Spec2Model ----
(***************************************************************************)
(* Task execution logging of autom8: ExecutionService.execute_task          *)
(* (services/execution_service.py), the scheduler's bound job function      *)
(* execute_task_with_logging (scheduler.py) and the startup sweep           *)
(* reconcile_zombie_tasks (services/startup_service.py), all working on the *)
(* shared task_logs table, the fallback disk file and the alert             *)
(* collaborator.                                                            *)
(***************************************************************************)
EXTENDS Integers, Sequences, FiniteSets, Bags, TLC

\* ------------------------------------------------------------------ bounds
MaxInv == 1        \* task invocations started in one behaviour
MaxOldRows == 1    \* rows already in task_logs when the process starts
MaxSweeps == 1     \* calls of reconcile_zombie_tasks in one behaviour
MaxFaults == 3     \* database and disk failures injected in one behaviour
MaxSched == 2      \* calls of the scheduling functions in one behaviour
MaxRunTimes == 5   \* run times of the jobs that pass in one behaviour
MaxTasks == 2      \* Task objects built by TaskFactory.create in one behaviour

Invs == 1..MaxInv

\* --------------------------------------------------------------- constants
TruncLen == 500    \* the [:500] slices of result_data / error_message

\* ----------------------------------------------------------------- strings
\* A Python string is modelled by what it says and how long it is, so that
\* slicing is observable.
Text(t, n) == [text |-> t, len |-> n]
NullText == Text("NULL", 0)          \* a NULL column
None == 0                            \* None / NULL for ids and timestamps

\* s[:500]
Truncate(s) == IF s.len > TruncLen THEN Text(s.text, TruncLen) ELSE s

\* datetime.now(): every call reads a distinct, non-null instant, named by the
\* caller (invocation i, or sweep number r) and the place of the call.
StartTime(i) == 10 * i + 1
EndTime(i) == 10 * i + 2
DiskTime(i) == 10 * i + 3
SweepTime(r) == 10 * r + 9

UnknownType == Text("Unknown task type: 'nosuch'. Available types: backup, cleanup, report", 69)
ErrLong == Text("long traceback", 600)
DbDown == Text("DB Down", 7)
UnknownError == Text("Unknown error", 13)
Unknown == Text("Unknown", 7)
InterruptedMsg == Text("System shutdown or interruption detected.", 41)

\* ------------------------------------------------------------------- tasks
\* TaskFactory._task_registry; "nosuch" stands for any unregistered type.
task_registry == {"backup", "cleanup", "report"}
TaskTypes == {"backup", "nosuch"}

SuccessResult(task_type) == [status |-> "success", file |-> Text(task_type, 40)]
FailedResult(e) == [status |-> "failed", error |-> e]
NoResult == [status |-> "none"]

\* run_task(task_type): TaskFactory.create raises for an unregistered type;
\* execute() of a registered task returns a success dict or, having caught
\* its own exception, a failed dict; the call may also raise.
run_task(task_type) ==
    IF task_type \notin task_registry
    THEN {[kind |-> "raise", error |-> UnknownType]}
    ELSE {[kind |-> "return", result |-> SuccessResult(task_type)],
          [kind |-> "return", result |-> FailedResult(ErrLong)]}

\* everything run_task can do, whatever the type
Outcomes == UNION {run_task(t) : t \in TaskTypes}

\* str(result)
Str(r) ==
    IF r.status = "success"
    THEN Text("{status: success, file: " \o r.file.text \o "}", r.file.len + 30)
    ELSE IF "error" \in DOMAIN r
    THEN Text("{status: " \o r.status \o ", error: " \o r.error.text \o "}", r.error.len + 30)
    ELSE Text("{status: " \o r.status \o "}", 20)

\* result.get(key, default) for key = "error"
GetError(r, default) == IF "error" \in DOMAIN r THEN r.error ELSE default

VARIABLES
    task_logs,   \* the task_logs table: row id -> row (ids are 1..Len)
    fallback,    \* task_execution_fallback.jsonl: the bag of its lines
    alerts,      \* the bag of calls received by alert_task_failure
    inv,         \* per invocation: position and locals of the running call
    sweep,       \* position and locals of reconcile_zombie_tasks
    faults,      \* failures of the database and the disk so far
    scheduler,   \* the module global `scheduler` and the state of its instance
    call,        \* the last call of a scheduler function and how it ended
    fired,       \* the last job run: which entry of the job table, and how
    boot,        \* position of main() of run_scheduler.py / run_combined.py
    executor,    \* the scheduler's thread pool: instances per job, jobs submitted
    firings,     \* what became of each run time of each job
    registry,    \* TaskFactory._task_registry, in insertion order
    task         \* the last TaskFactory.create call and the task it built

vars == <<task_logs, fallback, alerts, inv, sweep, faults, scheduler, call, fired,
          boot, executor, firings, registry, task>>
tvars == <<task_logs, fallback, alerts, inv, sweep, faults>>
xvars == <<executor, firings, registry, task>>
svars == <<scheduler, call, fired, boot, executor, firings, registry, task>>
bvars == <<boot, executor, firings, registry, task>>

\* The environment fails at most MaxFaults times: a database call that raises
\* is one failure, a fallback write that raises is another.
Cost(db_fault, disk_used, disk_ok) ==
    (IF db_fault THEN 1 ELSE 0) + (IF disk_used /\ ~disk_ok THEN 1 ELSE 0)

Inject(db_fault, disk_used, disk_ok) ==
    /\ faults + Cost(db_fault, disk_used, disk_ok) <= MaxFaults
    /\ disk_used \/ disk_ok
    /\ faults' = faults + Cost(db_fault, disk_used, disk_ok)

IdleInv ==
    [fn |-> "none", pc |-> "idle", task_type |-> "none", session |-> "none",
     task_log_id |-> None, result |-> NoResult, status |-> "none",
     outcome |-> [kind |-> "none"], init_fault |-> "none", init_disk |-> "none",
     fin_fault |-> "none", fin_disk |-> "none", returned |-> NoResult,
     escaped |-> FALSE, exc |-> NullText]

\* ------------------------------------------------------- ExecutionService

\* TaskLog(task_type=..., task_name=task_name or task_type, status="running",
\*         started_at=start_time); task_name is always None here.
NewTaskLog(task_type, start_time, i) ==
    [task_type |-> task_type, task_name |-> task_type, status |-> "running",
     started_at |-> start_time, completed_at |-> None,
     result_data |-> NullText, error_message |-> NullText, by |-> i]

\* _log_to_disk: the entry appended when open()/write succeed; a failure is
\* logged as TRIPLE-FAULT and swallowed.
DiskEntry(task_type, status, data, i) ==
    [timestamp |-> DiskTime(i), task_type |-> task_type, status |-> status,
     data |-> data, by |-> i]

_log_to_disk_Dropped(file, task_type, status, data, i, disk_ok) == file

_log_to_disk(file, task_type, status, data, i, disk_ok) ==
    IF disk_ok THEN file (+) SetToBag({DiskEntry(task_type, status, data, i)}) ELSE file

DiskOutcome(used, disk_ok) ==
    IF ~used THEN "none" ELSE IF disk_ok THEN "ok" ELSE "fail"

\* _initialize_log: where its try block can raise.
InitFaults == {"none", "get_session", "commit", "refresh"}

InitRowInserted_DespiteCommitFault(fault) == fault # "get_session"

\* The INSERT is committed before refresh runs.
InitRowInserted(fault) == fault \in {"none", "refresh"}
\* session stays None only when get_session itself raised.
InitSession(fault) == IF fault = "get_session" THEN "none" ELSE "open"
InitLogId_First(fault, next_id) == IF fault = "none" THEN 1 ELSE None

\* task_log_id is assigned after refresh, so any exception leaves it None.
InitLogId(fault, next_id) == IF fault = "none" THEN next_id ELSE None
\* except branch, line 70
InitDiskData == [error |-> Text("DB_DOWN", 7), msg |-> DbDown]

\* execute_task lines 32-35: start_time = datetime.now() and _initialize_log.
_initialize_log(i, t, fault, disk_ok) ==
    /\ inv[i].pc = "idle"
    /\ \A j \in DOMAIN inv : j < i => inv[j].pc # "idle"
    /\ Inject(fault # "none", fault # "none", disk_ok)
    /\ task_logs' = IF InitRowInserted(fault)
                    THEN Append(task_logs, NewTaskLog(t, StartTime(i), i))
                    ELSE task_logs
    /\ fallback' = IF fault = "none" THEN fallback
                   ELSE _log_to_disk(fallback, t, "running", InitDiskData, i, disk_ok)
    /\ inv' = [inv EXCEPT ![i] =
                 [@ EXCEPT !.fn = "execute_task", !.pc = "run", !.task_type = t,
                           !.session = InitSession(fault),
                           !.task_log_id = InitLogId(fault, Len(task_logs) + 1),
                           !.init_fault = fault,
                           !.init_disk = DiskOutcome(fault # "none", disk_ok)]]
    /\ UNCHANGED <<alerts, sweep>>

_run_task_LosesError(o) ==
    IF o.kind = "return" THEN o.result ELSE FailedResult(UnknownError)

\* _run_task: the result of run_task, or {"status": "failed", "error": str(e)}
\* when it raised.
_run_task(o) ==
    IF o.kind = "return" THEN o.result ELSE FailedResult(o.error)

FinalStatus_AlwaysCompleted(result) == "completed"

\* execute_task line 41
FinalStatus(result) ==
    IF result.status = "success" THEN "completed" ELSE "failed"

FinalizedRow_NoCompletedAt(row, status, result, end_time) ==
    IF status = "completed"
    THEN [row EXCEPT !.status = status, !.result_data = Truncate(Str(result))]
    ELSE [row EXCEPT !.status = status,
                     !.error_message = Truncate(GetError(result, Unknown))]

\* _finalize_log lines 92-98: the columns the UPDATE writes.
FinalizedRow(row, status, result, end_time) ==
    IF status = "completed"
    THEN [row EXCEPT !.status = status, !.completed_at = end_time,
                     !.result_data = Truncate(Str(result))]
    ELSE [row EXCEPT !.status = status, !.completed_at = end_time,
                     !.error_message = Truncate(GetError(result, Unknown))]

\* What can go wrong in _finalize_log's try block: with a session and a log
\* id the lookup or the commit may raise or the row may be missing; without
\* them line 103 raises.
FinalizeFaults(session, task_log_id) ==
    IF session # "none" /\ task_log_id # None
    THEN {"none", "query", "not_found", "commit"}
    ELSE {"no_session"}

\* finally: session.close() if there is a session
ClosedSession(session) == IF session = "none" THEN "none" ELSE "closed"

\* execute_task lines 45-46
ShouldAlert(status) == status = "failed"

AlertCall_Truncated(task_type, error_message, i) ==
    [task_type |-> task_type, error_message |-> Truncate(error_message), by |-> i]

AlertCall(task_type, error_message, i) ==
    [task_type |-> task_type, error_message |-> error_message, by |-> i]

ReturnValue_StatusOnly(result) == [status |-> result.status]

\* execute_task line 48
ReturnValue(result) == result

\* execute_task lines 38-48: _run_task, _finalize_log, the alert and the
\* return.  The task runs between the INSERT of _initialize_log and this
\* step; the only shared state the step reads or writes is the row it
\* updates, the fallback file and the alert collaborator.
execute_task(i, o, fault, disk_ok) ==
    /\ inv[i].fn = "execute_task"
    /\ inv[i].pc = "run"
    /\ o \in run_task(inv[i].task_type)
    /\ fault \in FinalizeFaults(inv[i].session, inv[i].task_log_id)
    /\ Inject(fault \notin {"none", "no_session"}, fault # "none", disk_ok)
    /\ LET result == _run_task(o)
           status == FinalStatus(result)
           id == inv[i].task_log_id
       IN /\ task_logs' = IF fault = "none"
                          THEN [task_logs EXCEPT ![id] =
                                  FinalizedRow(@, status, result, EndTime(i))]
                          ELSE task_logs
          /\ fallback' = IF fault = "none" THEN fallback
                         ELSE _log_to_disk(fallback, inv[i].task_type, status,
                                           result, i, disk_ok)
          /\ alerts' = IF ShouldAlert(status)
                       THEN alerts (+) SetToBag({AlertCall(inv[i].task_type,
                                                     GetError(result, UnknownError), i)})
                       ELSE alerts
          /\ inv' = [inv EXCEPT ![i] =
                       [@ EXCEPT !.pc = "done", !.outcome = o, !.result = result,
                                 !.status = status,
                                 !.session = ClosedSession(@),
                                 !.fin_fault = IF fault = "none" THEN "none" ELSE "raised",
                                 !.fin_disk = DiskOutcome(fault # "none", disk_ok),
                                 !.returned = ReturnValue(result)]]
    /\ UNCHANGED sweep

\* execute_task line 41 when the task registered under the type returned a
\* value that has no get(), None for one: the AttributeError leaves
\* execute_task before _finalize_log, whose finally (lines 107-109) holds the
\* only close(); nothing is written and no alert is sent.
NoGet == Text("'NoneType' object has no attribute 'get'", 40)

execute_task_no_dict(i) ==
    /\ inv[i].fn = "execute_task"
    /\ inv[i].pc = "run"
    /\ inv[i].task_type \in task_registry
    /\ inv' = [inv EXCEPT ![i] =
                 [@ EXCEPT !.pc = "done", !.outcome = [kind |-> "return"],
                           !.exc = NoGet, !.escaped = TRUE]]
    /\ UNCHANGED <<task_logs, fallback, alerts, sweep, faults>>

\* ---------------------------------- scheduler.execute_task_with_logging

\* lines 51-53: the columns written by the commit of line 55
CompletedRow(row, result, t) ==
    [row EXCEPT !.status = "completed", !.completed_at = t,
                !.result_data = Truncate(Str(result))]

\* lines 62-64: the columns written by the commit of line 66
FailedRow(row, e, t) ==
    [row EXCEPT !.status = "failed", !.completed_at = t,
                !.error_message = Truncate(e)]

\* lines 30-44.  get_session is called before the try, so its exception
\* leaves the function; an exception of commit or refresh enters the except
\* branch with the task not run.
execute_task_with_logging(i, t, fault) ==
    /\ inv[i].pc = "idle"
    /\ \A j \in DOMAIN inv : j < i => inv[j].pc # "idle"
    /\ fault \in InitFaults
    /\ Inject(fault # "none", FALSE, TRUE)
    /\ task_logs' = IF InitRowInserted(fault)
                    THEN Append(task_logs, NewTaskLog(t, StartTime(i), i))
                    ELSE task_logs
    /\ inv' = [inv EXCEPT ![i] =
                 [@ EXCEPT !.fn = "execute_task_with_logging",
                           !.pc = CASE fault = "none" -> "run"
                                    [] fault = "get_session" -> "done"
                                    [] OTHER -> "except",
                           !.task_type = t,
                           !.session = InitSession(fault),
                           !.task_log_id = IF InitRowInserted(fault)
                                           THEN Len(task_logs) + 1 ELSE None,
                           !.init_fault = fault,
                           !.exc = IF fault = "none" THEN NullText ELSE DbDown,
                           !.escaped = (fault = "get_session")]]
    /\ UNCHANGED <<fallback, alerts, sweep>>

\* lines 48-59 and the finally.  Whatever run_task returns is recorded as
\* completed; only an exception (of run_task or of the commit) reaches the
\* except branch.
scheduled_task_run(i, o, fault) ==
    /\ inv[i].fn = "execute_task_with_logging"
    /\ inv[i].pc = "run"
    /\ o \in run_task(inv[i].task_type)
    /\ fault \in {"none", "commit"}
    /\ o.kind = "raise" => fault = "none"
    /\ Inject(fault # "none", FALSE, TRUE)
    /\ LET id == inv[i].task_log_id
           ok == o.kind = "return" /\ fault = "none"
       IN /\ task_logs' = IF ok
                          THEN [task_logs EXCEPT ![id] =
                                  CompletedRow(@, o.result, EndTime(i))]
                          ELSE task_logs
          /\ inv' = [inv EXCEPT ![i] =
                       [@ EXCEPT !.pc = IF ok THEN "done" ELSE "except",
                                 !.outcome = o,
                                 !.result = IF o.kind = "return" THEN o.result
                                            ELSE NoResult,
                                 !.status = IF ok THEN "completed" ELSE "none",
                                 !.exc = IF o.kind = "raise" THEN o.error
                                         ELSE IF fault = "none" THEN NullText
                                         ELSE DbDown,
                                 !.session = IF ok THEN "closed" ELSE @,
                                 !.fin_fault = fault,
                                 !.returned = IF ok THEN o.result ELSE NoResult]]
    /\ UNCHANGED <<fallback, alerts, sweep>>

\* lines 61-73 and the finally: the except branch commits again, unguarded.
\* When that commit raises the exception leaves the function before the
\* alert; when it passes, the row (if the INSERT had reached the table) is
\* marked failed, the alert is sent and a failed dict is returned.
scheduled_task_except(i, fault) ==
    /\ inv[i].fn = "execute_task_with_logging"
    /\ inv[i].pc = "except"
    /\ fault \in {"none", "commit"}
    /\ Inject(fault # "none", FALSE, TRUE)
    /\ LET id == inv[i].task_log_id
       IN /\ task_logs' = IF fault = "none" /\ id # None
                          THEN [task_logs EXCEPT ![id] =
                                  FailedRow(@, inv[i].exc, EndTime(i))]
                          ELSE task_logs
          /\ alerts' = IF fault = "none"
                       THEN alerts (+) SetToBag({AlertCall(inv[i].task_type,
                                                           inv[i].exc, i)})
                       ELSE alerts
          /\ inv' = [inv EXCEPT ![i] =
                       [@ EXCEPT !.pc = "done",
                                 !.status = IF fault = "none" THEN "failed" ELSE "none",
                                 !.session = "closed",
                                 !.escaped = (fault # "none"),
                                 !.returned = IF fault = "none"
                                              THEN FailedResult(inv[i].exc)
                                              ELSE NoResult]]
    /\ UNCHANGED <<fallback, sweep>>

\* ------------------------------------------------- reconcile_zombie_tasks

\* lines 32-34
InterruptedRow(row, t) ==
    [row EXCEPT !.status = "interrupted", !.completed_at = t,
                !.error_message = InterruptedMsg]

\* What one call of reconcile_zombie_tasks did: the session.commit() and
\* session.close() calls it issued and whether it took the except branch.
NewSweep(runs) ==
    [pc |-> "idle", session |-> "none", zombies |-> {}, before |-> <<>>,
     runs |-> runs, escaped |-> FALSE, failed |-> FALSE, commits |-> 0,
     closes |-> 0]

\* lines 24-26 and the finally: nothing to do, the session is closed.
NoZombieSweep_Commits(runs) ==
    [NewSweep(runs) EXCEPT !.session = "closed", !.commits = 1, !.closes = 1]

NoZombieSweep(runs) ==
    [NewSweep(runs) EXCEPT !.session = "closed", !.closes = 1]

\* line 22: the rows the query returns
Zombies_AllRows == 1..Len(task_logs)

Zombies == {id \in 1..Len(task_logs) : task_logs[id].status = "running"}

\* line 20 and the query of line 22: get_session is outside the try, so its
\* exception escapes; a failing query is caught and the session is closed.
\* With no zombies the function returns at line 26 and only the finally runs.
reconcile_zombie_tasks(fault) ==
    /\ sweep.pc = "idle"
    /\ fault \in {"none", "get_session", "query"}
    /\ Inject(fault # "none", FALSE, TRUE)
    /\ sweep' =
         IF fault = "get_session"
         THEN [NewSweep(sweep.runs + 1) EXCEPT !.escaped = TRUE]
         ELSE IF fault = "query"
         THEN [NewSweep(sweep.runs + 1) EXCEPT !.session = "closed", !.failed = TRUE,
                                               !.closes = 1]
         ELSE IF Zombies = {}
         THEN NoZombieSweep(sweep.runs + 1)
         ELSE [NewSweep(sweep.runs + 1) EXCEPT !.session = "open", !.zombies = Zombies,
                                               !.before = task_logs, !.pc = "commit"]
    /\ UNCHANGED <<task_logs, fallback, alerts, inv>>

\* lines 31-37 and the finally: the loop's assignments reach the table with the
\* commit; a failing commit is caught and writes nothing.
reconcile_commit(fault) ==
    /\ sweep.pc = "commit"
    /\ fault \in {"none", "commit"}
    /\ Inject(fault # "none", FALSE, TRUE)
    /\ task_logs' = IF fault = "none"
                    THEN [id \in 1..Len(task_logs) |->
                            IF id \in sweep.zombies
                            THEN InterruptedRow(task_logs[id], SweepTime(sweep.runs))
                            ELSE task_logs[id]]
                    ELSE task_logs
    /\ sweep' = [sweep EXCEPT !.pc = "idle", !.session = "closed", !.zombies = {},
                              !.before = <<>>, !.failed = (fault # "none"),
                              !.commits = 1, !.closes = 1]
    /\ UNCHANGED <<fallback, alerts, inv>>

\* -------------------------------------------------------------- scheduler

\* The module global is None until init_scheduler builds the
\* BackgroundScheduler.  An instance is STATE_STOPPED or STATE_RUNNING
\* (scheduler.running is state # STATE_STOPPED); while it is stopped add_job
\* appends to its list of pending jobs, which start() moves into the job
\* store, and get_jobs lists the pending jobs; while it runs they list the store.
NoScheduler ==
    [instance |-> 0, state |-> "stopped", listeners |-> 0, pending |-> <<>>,
     store |-> {}, serial |-> 0, shut |-> FALSE]

\* lines 100-111: BackgroundScheduler(...) and the two add_listener calls
NewScheduler == [NoScheduler EXCEPT !.instance = 1, !.listeners = 2]

Initialized(s) == s.instance # 0
Running(s) == s.state = "running"

DefaultJobs == {"backup_job", "cleanup_job", "report_job"}
Timestamps == {"1700000000.0"}
DynamicId(task_type, ts) == "dynamic_" \o task_type \o "_" \o ts
DynamicTypes == {"nosuch"}
\* the job_id given to pause_job, resume_job, remove_job and run_job_now
JobIds == {"backup_job", "cleanup_job", "no_such_job"}

\* args=[...] of the three add_job calls
JobTask(id) ==
    CASE id = "backup_job" -> "backup"
      [] id = "cleanup_job" -> "cleanup"
      [] id = "report_job" -> "report"

\* A job as add_job builds it.  next_run_time is "undefined" (the attribute
\* is not set: add_job was given none), "none" (None: the job is paused) or
\* "set" (a concrete time).
Job(id, task_type, next_run_time, replace_existing, serial) ==
    [id |-> id, task_type |-> task_type, next_run_time |-> next_run_time,
     replace_existing |-> replace_existing, serial |-> serial]

\* line 130: only the backup job is given next_run_time=datetime.now()
GivenNextRunTime(id) == IF id = "backup_job" THEN "set" ELSE "undefined"

\* _real_add_job: an undefined next_run_time is computed from the trigger
Due(job) ==
    IF job.next_run_time = "undefined" THEN [job EXCEPT !.next_run_time = "set"]
    ELSE job

StoreIds(store) == {j.id : j \in store}

\* The store's add_job: a job whose id is in the store replaces it when
\* replace_existing is given and is refused with ConflictingIdError otherwise.
Conflicts(store, job) == job.id \in StoreIds(store) /\ ~job.replace_existing

RealAdd(store, job) ==
    {j \in store : j.id # job.id} \cup {Due(job)}

\* start(): the pending jobs go to the store in the order they were added; the
\* first conflict raises, leaving what was added before it in the store.
RECURSIVE RealAddAll(_, _)
RealAddAll(store, pending) ==
    IF pending = <<>> THEN [store |-> store, ok |-> TRUE]
    ELSE IF Conflicts(store, Head(pending)) THEN [store |-> store, ok |-> FALSE]
    ELSE RealAddAll(RealAdd(store, Head(pending)), Tail(pending))

\* scheduler.add_job(...): what it does to the instance, and whether it
\* raised.  serial numbers the calls of the scheduling functions, so that a
\* job is told from an earlier one of the same id.
add_job(s, id, task_type, replace_existing) ==
    LET job == Job(id, task_type, GivenNextRunTime(id), replace_existing, s.serial + 1)
    IN IF ~Running(s)
       THEN [s |-> [s EXCEPT !.pending = Append(@, job)], ok |-> TRUE]
       ELSE IF Conflicts(s.store, job)
       THEN [s |-> s, ok |-> FALSE]
       ELSE [s |-> [s EXCEPT !.store = RealAdd(@, job)], ok |-> TRUE]

Numbered(s) == [s EXCEPT !.serial = @ + 1]

\* scheduler.get_jobs()
get_jobs(s) ==
    IF Running(s) THEN s.store ELSE {s.pending[k] : k \in 1..Len(s.pending)}

\* _lookup_job: the first pending job of that id while stopped, the stored
\* job of that id while running; 0 stands for JobLookupError / None
FirstPending(s, id) ==
    LET ks == {k \in 1..Len(s.pending) : s.pending[k].id = id}
    IN IF ks = {} THEN 0 ELSE CHOOSE k \in ks : \A m \in ks : k <= m

Found_WhenRunning(s, id) == Running(s) /\ id \in StoreIds(s.store)

Found(s, id) ==
    IF Running(s) THEN id \in StoreIds(s.store) ELSE FirstPending(s, id) # 0

Lookup(s, id) ==
    IF Running(s) THEN CHOOSE j \in s.store : j.id = id
    ELSE s.pending[FirstPending(s, id)]

\* modify_job(job_id, next_run_time=...): the job found is changed in place
Modified(s, id, next_run_time) ==
    IF Running(s)
    THEN [s EXCEPT !.store = {IF j.id = id THEN [j EXCEPT !.next_run_time = next_run_time]
                                ELSE j : j \in @}]
    ELSE [s EXCEPT !.pending[FirstPending(s, id)].next_run_time = next_run_time]

\* remove_job: the first pending job of that id, or the stored one
Removed(s, id) ==
    IF Running(s) THEN [s EXCEPT !.store = {j \in @ : j.id # id}]
    ELSE [s EXCEPT !.pending = [k \in 1..(Len(@) - 1) |->
                                  IF k < FirstPending(s, id) THEN @[k] ELSE @[k + 1]]]

\* lines 204-215: one entry per job, next_run_time "N/A" unless the job has one
NextRunTimeShown(job) == IF job.next_run_time = "set" THEN "time" ELSE "N/A"

get_scheduled_jobs ==
    IF ~Initialized(scheduler) THEN {}
    ELSE {[id |-> j.id, serial |-> j.serial, next_run_time |-> NextRunTimeShown(j)] :
            j \in get_jobs(scheduler)}

\* How a call ended: "ok", "warning" (a no-op that only logs) or the
\* exception raised; and the instance it returned, if any.
Call(result, returned) == [result |-> result, returned |-> returned]
NoCall == Call("none", 0)
NoFire == [kind |-> "none", serial |-> 0, id |-> "none", slot |-> 0]

\* lines 89-115
init_scheduler_Rebuilds(s) == NewScheduler

init_scheduler(s) == IF Initialized(s) THEN s ELSE NewScheduler

InitScheduler ==
    /\ scheduler' = init_scheduler(scheduler)
    /\ call' = Call(IF Initialized(scheduler) THEN "warning" ELSE "ok",
                    scheduler'.instance)
    /\ UNCHANGED fired
    /\ UNCHANGED tvars

\* lines 119-165: schedule_backup_job, schedule_cleanup_job, schedule_report_job
NotInitialized_Ignored(s) == FALSE

NotInitialized(s) == ~Initialized(s)

schedule_job(id) ==
    /\ id \in DefaultJobs
    /\ IF NotInitialized(scheduler)
       THEN /\ call' = Call("RuntimeError", 0)
            /\ UNCHANGED scheduler
       ELSE LET r == add_job(scheduler, id, JobTask(id), TRUE)
            IN /\ scheduler' = Numbered(r.s)
               /\ call' = Call(IF r.ok THEN "ok" ELSE "ConflictingIdError", 0)
    /\ UNCHANGED fired
    /\ UNCHANGED tvars

\* lines 168-173
AllJobsAdded(s) ==
    add_job(add_job(add_job(s, "backup_job", "backup", TRUE).s,
                    "cleanup_job", "cleanup", TRUE).s,
            "report_job", "report", TRUE).s

schedule_all_jobs ==
    /\ IF NotInitialized(scheduler)
       THEN /\ call' = Call("RuntimeError", 0)
            /\ UNCHANGED scheduler
       ELSE /\ scheduler' = Numbered(AllJobsAdded(scheduler))
            /\ call' = Call("ok", 0)
    /\ UNCHANGED fired
    /\ UNCHANGED tvars

\* lines 273-286: CoreSchedulerProvider.schedule_task, with interval kwargs
schedule_task(task_type, ts) ==
    LET r == add_job(init_scheduler(scheduler), DynamicId(task_type, ts), task_type,
                     FALSE)
    IN /\ scheduler' = Numbered(r.s)
       /\ call' = Call(IF r.ok THEN "ok" ELSE "ConflictingIdError", 0)
       /\ UNCHANGED fired
       /\ UNCHANGED tvars

\* lines 177-185.  scheduler.start() on a stopped instance (never started, or
\* shut down) moves the pending jobs to the store and sets it running; on a
\* running instance it raises SchedulerAlreadyRunningError.
Started(s) ==
    LET r == RealAddAll(s.store, s.pending)
    IN IF r.ok THEN [s EXCEPT !.state = "running", !.store = r.store, !.pending = <<>>]
       ELSE [s EXCEPT !.store = r.store]

StartNeeded_Always(s) == TRUE

StartNeeded(s) == ~Running(s)

start_scheduler ==
    /\ IF NotInitialized(scheduler)
       THEN /\ call' = Call("RuntimeError", 0)
            /\ UNCHANGED scheduler
       ELSE IF StartNeeded(scheduler)
       THEN /\ scheduler' = IF Running(scheduler) THEN scheduler ELSE Started(scheduler)
            /\ call' = Call(IF Running(scheduler) THEN "SchedulerAlreadyRunningError"
                            ELSE IF Running(scheduler') THEN "ok"
                            ELSE "ConflictingIdError", 0)
       ELSE /\ call' = Call("warning", 0)
            /\ UNCHANGED scheduler
    /\ UNCHANGED fired
    /\ UNCHANGED tvars

\* lines 188-197.  scheduler.shutdown(wait) sets the instance stopped and shuts
\* the job store down, which for the default memory store removes every job;
\* with wait it returns once the firings in progress have ended.
Shutdown(s) == [s EXCEPT !.state = "stopped", !.store = {}, !.shut = TRUE]

InProgress ==
    fired.kind = "trigger" /\ \E i \in DOMAIN inv : inv[i].fn # "none" /\ inv[i].pc # "done"

stop_scheduler(wait) ==
    /\ IF NotInitialized(scheduler) \/ ~Running(scheduler)
       THEN /\ call' = Call("warning", 0)
            /\ UNCHANGED scheduler
       ELSE /\ wait => ~InProgress
            /\ scheduler' = Shutdown(scheduler)
            /\ call' = Call("ok", 0)
    /\ UNCHANGED fired
    /\ UNCHANGED tvars

\* lines 220-241: pause_job, resume_job, remove_job; the scheduler's method
\* raises JobLookupError when it finds no job of that id
Paused(s, id) == Modified(s, id, "none")

Resumed(s, id) == Modified(s, id, "set")

JobOp(id, after) ==
    /\ IF NotInitialized(scheduler)
       THEN /\ call' = Call("RuntimeError", 0)
            /\ UNCHANGED scheduler
       ELSE IF ~Found(scheduler, id)
       THEN /\ call' = Call("JobLookupError", 0)
            /\ UNCHANGED scheduler
       ELSE /\ scheduler' = after
            /\ call' = Call("ok", 0)
    /\ UNCHANGED fired
    /\ UNCHANGED tvars

pause_job(id) == JobOp(id, Paused(scheduler, id))

resume_job(id) == JobOp(id, Resumed(scheduler, id))

remove_job(id) == JobOp(id, Removed(scheduler, id))

\* line 250: the error raised for a job that get_job does not find
JobNotFound_AsLookupError == "JobLookupError"

JobNotFound == "ValueError"

\* lines 252-254: what job.func returns is dropped, and run_job_now, ending
\* without a return statement, returns None
run_job_now_returns(result) == NoResult

\* lines 244-254: the job's function is called in the caller's thread
run_job_now(i, id, fault) ==
    /\ IF NotInitialized(scheduler)
       THEN /\ call' = Call("RuntimeError", 0)
            /\ UNCHANGED fired
            /\ UNCHANGED tvars
       ELSE IF ~Found(scheduler, id)
       THEN /\ call' = Call(JobNotFound, 0)
            /\ UNCHANGED fired
            /\ UNCHANGED tvars
       ELSE /\ execute_task_with_logging(i, Lookup(scheduler, id).task_type, fault)
            /\ call' = Call("called", 0)
            /\ fired' = [kind |-> "manual", serial |-> Lookup(scheduler, id).serial,
                         id |-> id, slot |-> i]
    /\ UNCHANGED scheduler

\* The scheduler's thread: a stored job whose next_run_time has come is
\* submitted to the executor, which calls execute_task_with_logging(*args),
\* and the trigger gives the job its next time.
DueJobs(s) == IF Running(s) THEN {j \in s.store : j.next_run_time = "set"} ELSE {}

trigger_fire(i, job, fault) ==
    /\ job \in DueJobs(scheduler)
    /\ execute_task_with_logging(i, job.task_type, fault)
    /\ fired' = [kind |-> "trigger", serial |-> job.serial, id |-> job.id, slot |-> i]
    /\ UNCHANGED <<scheduler, call>>

\* ----------------------------------------------------------- the executor

\* lines 102-106: the job defaults given to BackgroundScheduler
coalesce == FALSE

max_instances_OneMore == 3 + 1

max_instances == 3

misfire_grace_time_Hour == 60 + 3600

misfire_grace_time == 60

\* The run times of a job are numbered 1, 2, ... in the order its trigger
\* produces them; next is the number of the job's next_run_time.  A job that
\* comes due is submitted to the executor with the run times that have passed,
\* which counts one instance of the job until all of them have been run.
\* passed counts the run times that have passed, over all jobs.
ExecutorJobs == DefaultJobs \cup {DynamicId("backup", ts) : ts \in Timestamps}
NoExecutor == [instances |-> [id \in ExecutorJobs |-> 0], subs |-> {}]
NoFirings == [next |-> [id \in ExecutorJobs |-> 1], fates |-> {}, passed |-> 0]

\* The seconds between two run times of a job: IntervalTrigger(hours=24),
\* IntervalTrigger(hours=1), the daily CronTrigger(hour=9, minute=0), and
\* IntervalTrigger(seconds=30) for the job schedule_task adds.
Interval(id) ==
    CASE id = "backup_job" -> 24 * 3600
      [] id = "cleanup_job" -> 3600
      [] id = "report_job" -> 24 * 3600
      [] OTHER -> 30

\* job._get_run_times(now): k run times have passed, the first being next
RunTimes(next, k) == [m \in 1..k |-> next + m - 1]

\* run_times[-1:] if coalesce else run_times
Coalesced(run_times) ==
    IF coalesce THEN <<run_times[Len(run_times)]>> ELSE run_times

Collapsed(run_times) ==
    IF coalesce THEN {run_times[m] : m \in 1..(Len(run_times) - 1)} ELSE {}

\* what became of run time n of job id: "skipped" (the job was at its cap),
\* "coalesced", "missed" (too late by `late` seconds when the worker looked at
\* it) or "started" (the job function was called, in slot `slot` of inv)
Fate(id, n, fate, late, slot) ==
    [id |-> id, n |-> n, fate |-> fate, late |-> late, slot |-> slot]

Submission(job, run_times) ==
    [id |-> job.id, serial |-> job.serial, task_type |-> job.task_type,
     times |-> run_times, slot |-> 0, errors |-> 0, late |-> 0]

\* BaseExecutor.submit_job: MaxInstancesReachedError at the cap
AtCap(ex, id) == ex.instances[id] >= max_instances

\* How late, in seconds, the newest run time of a submission is when a worker
\* looks at the submission; a run time before it is later by the interval.
Lateness == {30, 31, 61}
LateBy(sub, late) == late + (Len(sub.times) - 1) * Interval(sub.id)

\* run_job: difference > grace_time
Misfired(late) == late > misfire_grace_time

\* The scheduler's thread, _process_jobs, for one due job: the run times that
\* have passed are submitted, or skipped when the job is at its cap, and in
\* both cases the job's next_run_time moves past them.
process_jobs(job, k) ==
    /\ job \in DueJobs(scheduler)
    /\ job.id \in ExecutorJobs
    /\ LET all == RunTimes(firings.next[job.id], k)
           run_times == Coalesced(all)
           full == AtCap(executor, job.id)
       IN /\ executor' =
               IF full THEN executor
               ELSE [executor EXCEPT !.instances[job.id] = @ + 1,
                                     !.subs = @ \cup {Submission(job, run_times)}]
          /\ firings' =
               [firings EXCEPT
                  !.next[job.id] = @ + k,
                  !.passed = @ + k,
                  !.fates = @ \cup {Fate(job.id, n, "coalesced", 0, 0) : n \in Collapsed(all)}
                              \cup (IF full
                                    THEN {Fate(job.id, run_times[m], "skipped", 0, 0) :
                                            m \in 1..Len(run_times)}
                                    ELSE {})]
    /\ UNCHANGED <<scheduler, call, fired, boot, registry, task>>
    /\ UNCHANGED tvars

\* run_job has finished with the run time it was running in slot i
Ended(ex, i, raised) ==
    [ex EXCEPT !.subs = {IF sub.slot = i
                         THEN [sub EXCEPT !.slot = 0, !.times = Tail(@),
                                          !.errors = @ + (IF raised THEN 1 ELSE 0)]
                         ELSE sub : sub \in @}]

\* the job function called in slot i has returned or raised in this step
job_ends(i) ==
    executor' = IF inv'[i].pc = "done" THEN Ended(executor, i, inv'[i].escaped)
                ELSE executor

\* A worker thread, run_job, at the next run time of a submitted job: a run
\* time missed by more than the grace time is dropped, any other calls
\* job.func(*job.args), that is execute_task_with_logging(task_type).
run_job(sub, late, i, fault) ==
    /\ sub \in executor.subs
    /\ sub.slot = 0
    /\ sub.times # <<>>
    /\ late >= sub.late
    /\ LET n == Head(sub.times)
           others == executor.subs \ {sub}
           seen == [sub EXCEPT !.late = late]
       IN IF Misfired(LateBy(sub, late))
          THEN /\ executor' = [executor EXCEPT
                                 !.subs = others \cup {[seen EXCEPT !.times = Tail(@)]}]
               /\ firings' = [firings EXCEPT
                                !.fates = @ \cup {Fate(sub.id, n, "missed",
                                                       LateBy(sub, late), 0)}]
               /\ UNCHANGED fired
               /\ UNCHANGED tvars
          ELSE /\ execute_task_with_logging(i, sub.task_type, fault)
               /\ executor' =
                    IF inv'[i].pc = "done"
                    THEN Ended([executor EXCEPT !.subs = others \cup {[seen EXCEPT !.slot = i]}],
                               i, inv'[i].escaped)
                    ELSE [executor EXCEPT !.subs = others \cup {[seen EXCEPT !.slot = i]}]
               /\ firings' = [firings EXCEPT
                                !.fates = @ \cup {Fate(sub.id, n, "started",
                                                       LateBy(sub, late), i)}]
               /\ fired' = [kind |-> "trigger", serial |-> sub.serial, id |-> sub.id,
                            slot |-> i]
    /\ UNCHANGED <<scheduler, call, boot, registry, task>>

\* lines 80-85: the listeners only log
job_executed_listener(s, job_id) == s

job_error_listener_Removes(s, job_id) == Removed(s, job_id)

job_error_listener(s, job_id) == s

\* _run_job_success: every run time of the submission has been dealt with; the
\* instance is released and the events of the runs go to the listeners.
run_job_success(sub) ==
    /\ sub \in executor.subs
    /\ sub.slot = 0
    /\ sub.times = <<>>
    /\ executor' = [executor EXCEPT !.instances[sub.id] = @ - 1, !.subs = @ \ {sub}]
    /\ scheduler' = IF sub.errors > 0 THEN job_error_listener(scheduler, sub.id)
                    ELSE job_executed_listener(scheduler, sub.id)
    /\ UNCHANGED <<call, fired, boot, firings, registry, task>>
    /\ UNCHANGED tvars

\* ------------------------------------------------------------ TaskFactory

\* The classes a caller can hand to register: Task and its three subclasses of
\* tasks.py, and object for any class that does not inherit from Task.
Classes == {"Task", "BackupTask", "CleanupTask", "ReportTask", "object"}

\* line 180: issubclass(task_class, Task), which holds of Task itself
IsTaskSubclass(c) == c # "object"

\* lines 45-47: execute is abstract in Task, so Task(...) raises TypeError
Abstract(c) == c = "Task"

\* the task type a class implements, as its result shows it
TaskKind(c) ==
    CASE c = "BackupTask" -> "backup"
      [] c = "CleanupTask" -> "cleanup"
      [] c = "ReportTask" -> "report"
      [] OTHER -> "none"

\* lines 157-161: the dict, as the sequence of its items in insertion order
_task_registry ==
    <<[key |-> "backup", cls |-> "BackupTask"],
      [key |-> "cleanup", cls |-> "CleanupTask"],
      [key |-> "report", cls |-> "ReportTask"]>>

\* the task_type strings given to register and create
TypeNames == {"backup", "BACKUP", "Extra", "extra"}

\* task_type.lower()
Lower(t) ==
    CASE t = "BACKUP" -> "backup"
      [] t = "Extra" -> "extra"
      [] OTHER -> t

\* _task_registry.keys()
Keys(reg) == [k \in 1..Len(reg) |-> reg[k].key]
HasKey(reg, key) == \E k \in 1..Len(reg) : reg[k].key = key

\* _task_registry.get(key): the class, or "None"
Get(reg, key) ==
    IF HasKey(reg, key) THEN reg[CHOOSE k \in 1..Len(reg) : reg[k].key = key].cls
    ELSE "None"

\* line 183: _task_registry[key] = task_class; an existing key keeps its place
Registered(reg, key, c) ==
    IF HasKey(reg, key)
    THEN [k \in 1..Len(reg) |-> IF reg[k].key = key THEN [reg[k] EXCEPT !.cls = c]
                                 ELSE reg[k]]
    ELSE Append(reg, [key |-> key, cls |-> c])

\* line 169: the message, by the type it names and the types it lists
UnknownTypeMsg(t, reg) == [names |-> t, lists |-> Keys(reg)]
NoMsg == [names |-> "none", lists |-> <<>>]

\* What the last create call did (made: the exception it raised, or
\* "instance"), the Task object it built, numbered by count, and what execute
\* did to that object and returned.
NoTask ==
    [made |-> "none", type |-> "none", cls |-> "none", msg |-> NoMsg, count |-> 0,
     status |-> "none", history |-> <<>>, result |-> NoResult, raised |-> FALSE]

\* lines 33-43 and 176: task_class(name=name, config=config)
NewTask(t, c, count) ==
    [NoTask EXCEPT !.made = "instance", !.type = t, !.cls = c, !.count = count,
                   !.status = "pending", !.history = <<"pending">>]

\* lines 179-184
register(t, c) ==
    /\ registry' = IF IsTaskSubclass(c) THEN Registered(registry, Lower(t), c)
                   ELSE registry
    /\ UNCHANGED task

\* lines 164-176
create(t) ==
    /\ task' = LET c == Get(registry, Lower(t))
               IN IF c = "None"
                  THEN [NoTask EXCEPT !.made = "ValueError", !.type = t,
                                      !.msg = UnknownTypeMsg(t, registry),
                                      !.count = task.count]
                  ELSE IF Abstract(c)
                  THEN [NoTask EXCEPT !.made = "TypeError", !.type = t, !.cls = c,
                                      !.count = task.count]
                  ELSE NewTask(t, c, task.count + 1)
    /\ UNCHANGED registry

\* lines 49-51, called first by every execute (lines 70, 97, 124)
log_start ==
    /\ task.made = "instance"
    /\ task.status = "pending"
    /\ task' = [task EXCEPT !.status = "running", !.history = Append(@, "running")]
    /\ UNCHANGED registry

\* lines 71-87, 98-114, 125-146: the try block of execute ends with
\* log_complete and the success dict, or raises into the except branch, which
\* calls log_error and returns the failed dict
execute_result(c, ok) ==
    IF ok THEN [status |-> "completed", result |-> SuccessResult(TaskKind(c)),
                raised |-> FALSE]
    ELSE [status |-> "failed", result |-> FailedResult(ErrLong), raised |-> FALSE]

execute(ok) ==
    /\ task.made = "instance"
    /\ task.status = "running"
    /\ LET r == execute_result(task.cls, ok)
       IN task' = [task EXCEPT !.status = r.status,
                               !.history = IF r.raised THEN @ ELSE Append(@, r.status),
                               !.result = r.result, !.raised = r.raised]
    /\ UNCHANGED registry

\* task_logs is durable: at process start it holds what earlier processes
\* left, rows of finished invocations and rows still "running" because the
\* process died before finalizing them.  Such a row is written by invocation 0.
OldRunning == NewTaskLog("backup", StartTime(0), 0)
OldCompleted == FinalizedRow(OldRunning, "completed", SuccessResult("backup"), EndTime(0))
OldRows == {OldRunning, OldCompleted}

RECURSIVE OldTables(_)
OldTables(n) ==
    IF n = 0 THEN {<<>>}
    ELSE LET shorter == OldTables(n - 1)
         IN shorter \cup {Append(tl, r) : tl \in shorter, r \in OldRows}

Init ==
    /\ task_logs \in OldTables(MaxOldRows)
    /\ fallback = EmptyBag
    /\ alerts = EmptyBag
    /\ inv = [i \in Invs |-> IdleInv]
    /\ sweep = NewSweep(0)
    /\ faults = 0
    /\ scheduler = NoScheduler
    /\ call = NoCall
    /\ fired = NoFire
    /\ boot = "new"
    /\ executor = NoExecutor
    /\ firings = NoFirings
    /\ registry = _task_registry
    /\ task = NoTask

Next ==
    \/ \E i \in Invs, t \in TaskTypes, fault \in InitFaults, disk_ok \in BOOLEAN :
          _initialize_log(i, t, fault, disk_ok) /\ UNCHANGED svars
    \/ \E i \in Invs, o \in Outcomes,
          fault \in {"none", "query", "not_found", "commit", "no_session"},
          disk_ok \in BOOLEAN : execute_task(i, o, fault, disk_ok) /\ UNCHANGED svars
    \/ \E i \in Invs, t \in TaskTypes, fault \in InitFaults :
          execute_task_with_logging(i, t, fault) /\ UNCHANGED svars
    \/ \E i \in Invs, o \in Outcomes, fault \in {"none", "commit"} :
          scheduled_task_run(i, o, fault) /\ UNCHANGED svars
    \/ \E i \in Invs, fault \in {"none", "commit"} :
          scheduled_task_except(i, fault) /\ UNCHANGED svars
    \/ \E fault \in {"none", "get_session", "query"} :
          sweep.runs < MaxSweeps /\ reconcile_zombie_tasks(fault) /\ UNCHANGED svars
    \/ \E fault \in {"none", "commit"} :
          reconcile_commit(fault) /\ UNCHANGED svars

Spec == Init /\ [][Next]_vars

\* The same with task classes a client registered: execute may return
\* anything.
ServiceNext ==
    \/ Next
    \/ \E i \in Invs : execute_task_no_dict(i) /\ UNCHANGED svars

ServiceSpec == Init /\ [][ServiceNext]_vars

\* The sweep on its own: reconcile_zombie_tasks called repeatedly over the
\* rows earlier processes left, with ExecutionService calls in flight.
SweepNext ==
    \/ \E i \in Invs, t \in TaskTypes, fault \in InitFaults, disk_ok \in BOOLEAN :
          _initialize_log(i, t, fault, disk_ok) /\ UNCHANGED svars
    \/ \E i \in Invs, o \in Outcomes,
          fault \in {"none", "query", "not_found", "commit", "no_session"},
          disk_ok \in BOOLEAN : execute_task(i, o, fault, disk_ok) /\ UNCHANGED svars
    \/ \E fault \in {"none", "get_session", "query"} :
          sweep.runs < MaxSweeps + 1 /\ reconcile_zombie_tasks(fault) /\ UNCHANGED svars
    \/ \E fault \in {"none", "commit"} :
          reconcile_commit(fault) /\ UNCHANGED svars

SweepSpec == Init /\ [][SweepNext]_vars

\* The scheduler's functions called in any order over a healthy database,
\* with the scheduler's thread firing the jobs that are due.
CanSchedule == scheduler.serial < MaxSched
Firings == {1}

SchedInit == Init /\ task_logs = <<>>

SchedNext ==
    \/ InitScheduler /\ UNCHANGED bvars
    \/ \E id \in DefaultJobs : CanSchedule /\ schedule_job(id) /\ UNCHANGED bvars
    \/ CanSchedule /\ schedule_all_jobs /\ UNCHANGED bvars
    \/ \E t \in DynamicTypes, ts \in Timestamps :
          CanSchedule /\ schedule_task(t, ts) /\ UNCHANGED bvars
    \/ start_scheduler /\ UNCHANGED bvars
    \/ \E wait \in BOOLEAN : stop_scheduler(wait) /\ UNCHANGED bvars
    \/ \E id \in JobIds : pause_job(id) /\ UNCHANGED bvars
    \/ \E id \in JobIds : resume_job(id) /\ UNCHANGED bvars
    \/ \E id \in JobIds : remove_job(id) /\ UNCHANGED bvars
    \/ \E i \in Firings, id \in JobIds : run_job_now(i, id, "none") /\ UNCHANGED bvars
    \/ \E i \in Firings, job \in DueJobs(scheduler) :
          trigger_fire(i, job, "none") /\ UNCHANGED bvars
    \/ \E i \in Firings, o \in Outcomes :
          scheduled_task_run(i, o, "none") /\ UNCHANGED svars
    \/ \E i \in Firings : scheduled_task_except(i, "none") /\ UNCHANGED svars

SchedSpec == SchedInit /\ [][SchedNext]_vars

\* A process from its boot to its exit: main() of run_scheduler.py (and of
\* run_combined.py, whose API serves the job endpoints while it runs), over
\* the rows earlier processes left, with the scheduler's thread firing.
Serving == boot = "start_scheduler"

main(at, next) == boot = at /\ boot' = next /\ UNCHANGED xvars

BootNext ==
    \/ main("new", "init_scheduler") /\ InitScheduler
    \/ main("init_scheduler", "schedule_all_jobs") /\ schedule_all_jobs
    \/ main("schedule_all_jobs", "start_scheduler") /\ start_scheduler
    \/ main("start_scheduler", "stop_scheduler") /\ stop_scheduler(TRUE)
    \/ \E id \in JobIds : Serving /\ pause_job(id) /\ UNCHANGED bvars
    \/ \E id \in JobIds : Serving /\ resume_job(id) /\ UNCHANGED bvars
    \/ \E i \in Invs, id \in JobIds, fault \in InitFaults :
          Serving /\ run_job_now(i, id, fault) /\ UNCHANGED bvars
    \/ \E i \in Invs, job \in DueJobs(scheduler), fault \in InitFaults :
          trigger_fire(i, job, fault) /\ UNCHANGED bvars
    \/ \E i \in Invs, o \in Outcomes, fault \in {"none", "commit"} :
          scheduled_task_run(i, o, fault) /\ UNCHANGED svars
    \/ \E i \in Invs, fault \in {"none", "commit"} :
          scheduled_task_except(i, fault) /\ UNCHANGED svars

BootSpec == Init /\ [][BootNext]_vars

\* The executor at work: after the boot of main(), the scheduler's thread
\* submits the jobs that come due and the pool's workers run them, several at
\* a time.
PoolSlots == 1..(max_instances + 1)
\* the jobs that come due in the hours modelled
ComingDue == {"backup_job", "cleanup_job"}
CanFire(k) == firings.passed + k <= MaxRunTimes
\* the tasks themselves succeed while the pool is watched
Succeeding == {o \in Outcomes : o.kind = "return" /\ o.result.status = "success"}
\* the database fails at most once while the pool is watched
CanFail(fault) == fault = "none" \/ faults = 0

InitOver(slots) ==
    /\ task_logs = <<>>
    /\ fallback = EmptyBag
    /\ alerts = EmptyBag
    /\ inv = [i \in slots |-> IdleInv]
    /\ sweep = NewSweep(0)
    /\ faults = 0
    /\ scheduler = NoScheduler
    /\ call = NoCall
    /\ fired = NoFire
    /\ boot = "new"
    /\ executor = NoExecutor
    /\ firings = NoFirings
    /\ registry = _task_registry
    /\ task = NoTask

\* Every job is looked at on time, one run time at a time, over a healthy
\* database: the runs overlap up to the cap.
PoolInit == InitOver(PoolSlots)

PoolNext ==
    \/ main("new", "init_scheduler") /\ InitScheduler
    \/ main("init_scheduler", "schedule_all_jobs") /\ schedule_all_jobs
    \/ main("schedule_all_jobs", "start_scheduler") /\ start_scheduler
    \/ \E job \in DueJobs(scheduler) :
          job.id \in ComingDue /\ CanFire(1) /\ process_jobs(job, 1)
    \/ \E sub \in executor.subs, i \in PoolSlots : run_job(sub, 0, i, "none")
    \/ \E sub \in executor.subs : run_job_success(sub)
    \/ \E i \in PoolSlots, o \in Succeeding :
          /\ scheduled_task_run(i, o, "none")
          /\ job_ends(i)
          /\ UNCHANGED <<scheduler, call, fired, boot, firings, registry, task>>

PoolSpec == PoolInit /\ [][PoolNext]_vars

\* The scheduler's thread wakes late: one or two run times of a job have
\* passed when it is looked at, the worker finds each within the grace time or
\* beyond it, and the database may fail once.
GraceSlots == {1, 2}
Passed == {1, 2}
\* the jobs that come due in the minutes modelled
GraceDue == {"cleanup_job"} \cup {DynamicId("backup", ts) : ts \in Timestamps}

\* fewer run times pass than while the pool is watched
GraceFire(k) == CanFire(k + 2)

GraceInit == InitOver(GraceSlots)

GraceNext ==
    \/ main("new", "init_scheduler") /\ InitScheduler
    \/ main("init_scheduler", "schedule_all_jobs") /\ schedule_all_jobs
    \/ \E ts \in Timestamps :
          /\ boot = "schedule_all_jobs" /\ boot' = "schedule_task"
          /\ schedule_task("backup", ts)
          /\ UNCHANGED xvars
    \/ main("schedule_task", "start_scheduler") /\ start_scheduler
    \/ \E job \in DueJobs(scheduler), k \in Passed :
          job.id \in GraceDue /\ GraceFire(k) /\ process_jobs(job, k)
    \/ \E sub \in executor.subs, late \in Lateness, i \in GraceSlots,
          fault \in {"none", "get_session"} :
             CanFail(fault) /\ run_job(sub, late, i, fault)
    \/ \E sub \in executor.subs : run_job_success(sub)
    \/ \E i \in GraceSlots, o \in Succeeding :
          /\ scheduled_task_run(i, o, "none")
          /\ job_ends(i)
          /\ UNCHANGED <<scheduler, call, fired, boot, firings, registry, task>>

GraceSpec == GraceInit /\ [][GraceNext]_vars

\* The task factory on its own: register and create called in any order with
\* any of the classes, and the task last created executed.
FactoryNext ==
    \/ \E t \in TypeNames, c \in Classes :
          register(t, c) /\ UNCHANGED <<executor, firings>>
             /\ UNCHANGED <<scheduler, call, fired, boot>> /\ UNCHANGED tvars
    \/ \E t \in TypeNames :
          task.count < MaxTasks /\ create(t) /\ UNCHANGED <<executor, firings>>
             /\ UNCHANGED <<scheduler, call, fired, boot>> /\ UNCHANGED tvars
    \/ log_start /\ UNCHANGED <<executor, firings>>
          /\ UNCHANGED <<scheduler, call, fired, boot>> /\ UNCHANGED tvars
    \/ \E ok \in BOOLEAN :
          execute(ok) /\ UNCHANGED <<executor, firings>>
             /\ UNCHANGED <<scheduler, call, fired, boot>> /\ UNCHANGED tvars

FactorySpec == InitOver(Invs) /\ [][FactoryNext]_vars

\* Two executions in flight at once, as two worker threads of the scheduler's
\* pool (or a worker and a caller of run_job_now or of ExecutionService) run
\* them: each step of one may fall between any two steps of the other.
ConcSlots == {1, 2}

ConcInit == InitOver(ConcSlots)

ConcNext ==
    \/ \E i \in ConcSlots, t \in TaskTypes, fault \in InitFaults, disk_ok \in BOOLEAN :
          _initialize_log(i, t, fault, disk_ok) /\ UNCHANGED svars
    \/ \E i \in ConcSlots, o \in Outcomes,
          fault \in {"none", "query", "not_found", "commit", "no_session"},
          disk_ok \in BOOLEAN : execute_task(i, o, fault, disk_ok) /\ UNCHANGED svars
    \/ \E i \in ConcSlots, t \in TaskTypes, fault \in InitFaults :
          execute_task_with_logging(i, t, fault) /\ UNCHANGED svars
    \/ \E i \in ConcSlots, o \in Outcomes, fault \in {"none", "commit"} :
          scheduled_task_run(i, o, fault) /\ UNCHANGED svars
    \/ \E i \in ConcSlots, fault \in {"none", "commit"} :
          scheduled_task_except(i, fault) /\ UNCHANGED svars

ConcSpec == ConcInit /\ [][ConcNext]_vars

\* ----------------------------------------------------------- vocabulary
Rows == 1..Len(task_logs)
RowsBy(i) == {id \in Rows : task_logs[id].by = i}
DiskBy(i) == {e \in BagToSet(fallback) : e.by = i}
AlertsBy(i) == {a \in BagToSet(alerts) : a.by = i}
Service(i) == inv[i].fn = "execute_task"
Firing(i) == inv[i].fn = "execute_task_with_logging"
Done(i) == inv[i].pc = "done"
\* the step of invocation i that takes it from pc p to pc q
Step(i, p, q) == inv[i].pc = p /\ inv'[i].pc = q
\* every row but id is left as it was
OthersUntouched(id) ==
    /\ Len(task_logs') = Len(task_logs)
    /\ \A r \in Rows : r # id => task_logs'[r] = task_logs[r]

\* C1: an execute_task invocation that meets no database failure inserts
\* exactly one row, with status running, and its closing step updates that row
\* and no other to completed (result status success) or failed (otherwise),
\* with completed_at set.
C1_InsertStep(i) ==
    (Step(i, "idle", "run") /\ Service(i)' /\ inv'[i].init_fault = "none")
    => /\ Len(task_logs') = Len(task_logs) + 1
       /\ \A r \in Rows : task_logs'[r] = task_logs[r]
       /\ task_logs'[Len(task_logs')].status = "running"
       /\ task_logs'[Len(task_logs')].by = i
       /\ inv'[i].task_log_id = Len(task_logs')

C1_UpdateStep(i) ==
    (Step(i, "run", "done") /\ Service(i) /\ inv[i].init_fault = "none"
        /\ inv'[i].fin_fault = "none")
    => LET id == inv[i].task_log_id
       IN /\ RowsBy(i)' = {id}
          /\ OthersUntouched(id)
          /\ task_logs'[id].status =
                (IF inv'[i].returned.status = "success" THEN "completed" ELSE "failed")
          /\ task_logs'[id].completed_at # None

C1_OneRowRunningThenFinal ==
    [][\A i \in Invs : C1_InsertStep(i) /\ C1_UpdateStep(i)]_vars

C1_Witness ==
    \E i \in Invs :
        /\ Service(i) /\ Done(i)
        /\ inv[i].init_fault = "none" /\ inv[i].fin_fault = "none"
        /\ task_logs[inv[i].task_log_id].status = "failed"
        /\ Len(task_logs) > 1

\* C2: in the table, a row is running exactly when its completed_at is NULL.
C2_RunningIffNoCompletedAt ==
    \A id \in Rows :
        (task_logs[id].status = "running") <=> (task_logs[id].completed_at = None)

C2_Witness ==
    /\ \E id \in Rows : task_logs[id].status = "interrupted"
                         /\ task_logs[id].completed_at # None
    /\ \E id \in Rows : task_logs[id].status = "failed" /\ task_logs[id].by # 0
                         /\ task_logs[id].completed_at # None

\* C3: once a row has left status running, no step changes any field of it.
C3_FinishedRowsFrozen ==
    [][\A id \in Rows :
          task_logs[id].status # "running" => task_logs'[id] = task_logs[id]]_vars

\* What the task itself did: the error it raised or returned, and the result
\* it hands back (a raised exception counts as {status: failed, error}).
IsFailure(o) == o.kind = "raise" \/ (o.kind = "return" /\ o.result.status # "success")
ErrorText(o) == IF o.kind = "raise" THEN o.error ELSE o.result.error
OwnResult(o) == IF o.kind = "return" THEN o.result
                ELSE [status |-> "failed", error |-> o.error]

\* C4 (as stated): when the task raises or returns a non-success result, the
\* closing step sets the row created at start to failed, with completed_at set
\* and error_message holding the error text, and the caller receives a failed
\* result carrying that error.
C4_Original ==
    [][\A i \in Invs :
          (Step(i, "run", "done") /\ Service(i) /\ IsFailure(inv'[i].outcome))
          => /\ \A id \in RowsBy(i) :
                   /\ task_logs'[id].status = "failed"
                   /\ task_logs'[id].completed_at # None
                   /\ task_logs'[id].error_message = ErrorText(inv'[i].outcome)
             /\ inv'[i].returned.status = "failed"
             /\ inv'[i].returned.error = ErrorText(inv'[i].outcome)]_vars

\* C4 (amended): when the task raises or returns a non-success result, the
\* finalize step still runs with status failed.  If it persists, the row
\* created at start is set to failed with completed_at set and error_message
\* holding the first 500 characters of the error text, and no other row
\* changes; if it cannot persist, no row changes and the failed outcome goes to
\* the fallback write.  Either way the caller receives a failed result
\* carrying the error.
C4_FailureStillFinalized ==
    [][\A i \in Invs :
          (Step(i, "run", "done") /\ Service(i) /\ IsFailure(inv'[i].outcome))
          => LET id == inv[i].task_log_id
                 e == ErrorText(inv'[i].outcome)
             IN /\ inv'[i].status = "failed"
                /\ inv'[i].returned.status = "failed"
                /\ inv'[i].returned.error = e
                /\ inv'[i].fin_fault = "none"
                     => /\ id \in RowsBy(i)
                        /\ OthersUntouched(id)
                        /\ task_logs'[id].status = "failed"
                        /\ task_logs'[id].completed_at # None
                        /\ task_logs'[id].error_message = Truncate(e)
                /\ inv'[i].fin_fault # "none"
                     => /\ task_logs' = task_logs
                        /\ inv'[i].fin_disk \in {"ok", "fail"}
                        /\ inv'[i].fin_disk = "ok"
                             => \E d \in DiskBy(i)' : d.status = "failed"]_vars

C4_Witness ==
    \E i \in Invs :
        /\ Service(i) /\ Done(i) /\ IsFailure(inv[i].outcome)
        /\ inv[i].fin_fault = "none"
        /\ task_logs[inv[i].task_log_id].status = "failed"
        /\ task_logs[inv[i].task_log_id].error_message.len = TruncLen
        /\ ErrorText(inv[i].outcome).len > TruncLen

\* C5: execute_task calls the alert collaborator exactly once, with the task
\* type and the (whole) error text, when the final status is failed, and not
\* at all otherwise, whatever happened to the row and the fallback file.
ExpectedAlert(i) ==
    [task_type |-> inv[i].task_type, error_message |-> ErrorText(inv[i].outcome),
     by |-> i]

C5_AlertIffFailed ==
    \A i \in Invs :
        Service(i) =>
            IF Done(i) /\ IsFailure(inv[i].outcome)
            THEN /\ inv[i].status = "failed"
                 /\ AlertsBy(i) = {ExpectedAlert(i)}
                 /\ CopiesIn(ExpectedAlert(i), alerts) = 1
            ELSE /\ AlertsBy(i) = {}
                 /\ Done(i) => inv[i].status = "completed"

C5_Witness ==
    \E i \in Invs :
        /\ Service(i) /\ Done(i) /\ IsFailure(inv[i].outcome)
        /\ inv[i].init_fault = "get_session"
        /\ inv[i].init_disk = "fail" /\ inv[i].fin_disk = "fail"
        /\ CopiesIn(ExpectedAlert(i), alerts) = 1
        /\ ExpectedAlert(i).error_message.len > TruncLen

\* The fallback line _initialize_log writes for invocation i of type t.
InitEntry(i) == DiskEntry(inv[i].task_type, "running", InitDiskData, i)
\* The fallback line _finalize_log writes for invocation i.
FinalEntry(i) == DiskEntry(inv[i].task_type, inv[i].status, inv[i].result, i)

\* C6 (as stated): when get_session or the INSERT fails in execute_task, a
\* fallback entry with status running and the exception text is appended, no
\* row is created, the task is still executed and its result returned.
C6_Original ==
    \A i \in Invs :
        (Service(i) /\ inv[i].init_fault \in {"get_session", "commit"})
        => /\ CopiesIn(InitEntry(i), fallback) = 1
           /\ RowsBy(i) = {}
           /\ ~inv[i].escaped
           /\ Done(i) => inv[i].returned = OwnResult(inv[i].outcome)

\* C6 (amended): when get_session or the INSERT fails in execute_task, the
\* fallback entry with status running and the exception text is appended once
\* if the fallback file can be written and not at all if that write fails too;
\* in both cases no row is created, the task is still executed and its result
\* returned.
C6_InitFaultFallsBackToDisk ==
    \A i \in Invs :
        (Service(i) /\ inv[i].init_fault \in {"get_session", "commit"})
        => /\ inv[i].init_disk \in {"ok", "fail"}
           /\ CopiesIn(InitEntry(i), fallback) = (IF inv[i].init_disk = "ok" THEN 1 ELSE 0)
           /\ InitEntry(i).data.msg = DbDown
           /\ RowsBy(i) = {}
           /\ ~inv[i].escaped
           /\ inv[i].pc \in {"run", "done"}
           /\ Done(i) => inv[i].returned = OwnResult(inv[i].outcome)

C6_Witness ==
    \E i \in Invs :
        /\ Service(i) /\ Done(i)
        /\ inv[i].init_fault = "commit" /\ inv[i].init_disk = "ok"
        /\ CopiesIn(InitEntry(i), fallback) = 1
        /\ inv[i].returned.status = "success"

\* C7 (as stated): when the finalize step cannot persist, exactly one fallback
\* entry carrying the final status and the task result is appended.
C7_Original ==
    \A i \in Invs :
        (Service(i) /\ Done(i) /\ inv[i].fin_fault # "none")
        => /\ inv[i].status \in {"completed", "failed"}
           /\ CopiesIn(FinalEntry(i), fallback) = 1

\* C7 (amended): when the finalize step cannot persist, exactly one fallback
\* entry carrying the final status and the task result is appended if the
\* fallback file can be written; if that write fails too, nothing is appended
\* and the outcome is recorded neither in a row nor on disk.
C7_FinalizeFaultFallsBackToDisk ==
    \A i \in Invs :
        (Service(i) /\ Done(i) /\ inv[i].fin_fault # "none")
        => /\ inv[i].status \in {"completed", "failed"}
           /\ inv[i].fin_disk \in {"ok", "fail"}
           /\ FinalEntry(i).data = OwnResult(inv[i].outcome)
           /\ inv[i].fin_disk = "ok"
                => /\ CopiesIn(FinalEntry(i), fallback) = 1
                   /\ {d \in DiskBy(i) : d.status # "running"} = {FinalEntry(i)}
           /\ inv[i].fin_disk = "fail"
                => /\ {d \in DiskBy(i) : d.status # "running"} = {}
                   /\ \A id \in RowsBy(i) :
                         task_logs[id].status \in {"running", "interrupted"}

C7_Witness ==
    \E i \in Invs :
        /\ Service(i) /\ Done(i)
        /\ inv[i].init_fault = "none" /\ inv[i].fin_fault # "none"
        /\ inv[i].fin_disk = "ok"
        /\ CopiesIn(FinalEntry(i), fallback) = 1
        /\ FinalEntry(i).status = "completed"

C9_FailedFiringRecordedFailed ==
    \A i \in Invs :
        (Firing(i) /\ Done(i) /\ IsFailure(inv[i].outcome))
        => /\ \A id \in RowsBy(i) : task_logs[id].status # "completed"
           /\ inv[i].status = "failed"
           /\ AlertsBy(i) # {}

\* C10: a firing that finds the database unreachable when the running row is
\* to be created still executes the task, records the attempt in the fallback
\* file and lets no exception escape.
C10_FiringSurvivesDbDown ==
    \A i \in Invs :
        (Firing(i) /\ Done(i) /\ inv[i].init_fault \in {"get_session", "commit"})
        => /\ ~inv[i].escaped
           /\ inv[i].outcome.kind # "none"
           /\ DiskBy(i) # {}

\* ------------------------------------------------------------ the sweep

\* a call of reconcile_zombie_tasks begins
SweepStarts == sweep.pc = "idle" /\ sweep'.runs = sweep.runs + 1
\* a call ends having committed
SweepCommitted == sweep.pc = "commit" /\ sweep'.pc = "idle" /\ ~sweep'.failed
\* a call ends in this step having failed
SweepFails == sweep' # sweep /\ (sweep'.failed \/ sweep'.escaped)

\* C11: given N rows with status running and M rows with other statuses when
\* reconcile_zombie_tasks queries the table, its successful commit leaves
\* exactly those N rows interrupted with completed_at set and the fixed
\* error_message, and changes no field of any other row.
C11_SweepInterruptsExactlyRunning ==
    [][SweepCommitted =>
         /\ Len(task_logs') = Len(task_logs)
         /\ \A id \in 1..Len(task_logs) :
               IF id <= Len(sweep.before) /\ sweep.before[id].status = "running"
               THEN /\ task_logs'[id].status = "interrupted"
                    /\ task_logs'[id].completed_at # None
                    /\ task_logs'[id].error_message = InterruptedMsg
               ELSE task_logs'[id] = task_logs[id]]_vars

\* a sweep has committed over a table with a running row and a finished row
C11_Witness ==
    /\ sweep.pc = "idle" /\ sweep.runs >= 1 /\ sweep.commits = 1 /\ ~sweep.failed
    /\ \E id \in Rows : /\ task_logs[id].status = "interrupted"
                         /\ task_logs[id].completed_at = SweepTime(sweep.runs)
    /\ \E id \in Rows : task_logs[id].status \in {"completed", "failed"}

\* C12: when no row has status running, reconcile_zombie_tasks issues no
\* commit, changes no row and closes its session exactly once; and a sweep
\* that committed undisturbed leaves no running row, so that a second sweep
\* right after it is such a call and leaves the table as the first left it.
C12_NoZombiesNoCommit ==
    [][/\ (SweepStarts /\ Zombies = {} /\ ~sweep'.escaped) =>
            /\ sweep'.pc = "idle"
            /\ sweep'.commits = 0
            /\ sweep'.closes = 1
            /\ sweep'.session = "closed"
            /\ task_logs' = task_logs
       /\ (SweepCommitted /\ sweep.before = task_logs) =>
            {id \in 1..Len(task_logs') : task_logs'[id].status = "running"} = {}]_vars

\* a second sweep has run right over what the first one interrupted
C12_Witness ==
    /\ sweep.pc = "idle" /\ sweep.runs = 2
    /\ sweep.commits = 0 /\ sweep.closes = 1 /\ ~sweep.failed /\ ~sweep.escaped
    /\ \E id \in Rows : /\ task_logs[id].status = "interrupted"
                         /\ task_logs[id].completed_at = SweepTime(1)
    /\ Zombies = {}

\* C13: any failure during reconcile_zombie_tasks (opening the session,
\* querying, committing) is swallowed: no exception reaches the caller, the
\* call ends without a second attempt, the session is closed and the rows
\* are as they were.
C13_SweepFailureSwallowed ==
    [][SweepFails =>
         /\ ~sweep'.escaped
         /\ sweep'.pc = "idle"
         /\ sweep'.commits <= 1
         /\ sweep'.session = "closed" /\ sweep'.closes = 1
         /\ task_logs' = task_logs]_vars

\* --------------------------------------------------------------- the boot

\* C14: in every boot sequence reconcile_zombie_tasks runs exactly once and
\* completes before the scheduler is started: whenever the scheduler is
\* running, and whenever a firing of this process has begun, the sweep has
\* run once and is over.
C14_SweepBeforeStart ==
    (Running(scheduler) \/ fired.kind # "none") =>
        (sweep.runs = 1 /\ sweep.pc = "idle")

\* ---------------------------------------------------------- the scheduler

\* a task execution begins in this step, called by the scheduler's thread
TriggerFires == fired'.kind = "trigger" /\ \E i \in Invs : Step(i, "idle", inv'[i].pc)
                    /\ inv'[i].pc # "idle"

\* C15: init_scheduler called when a scheduler exists returns that instance
\* without error, builds no scheduler, adds no listener and leaves the job
\* table as it is, whatever was called before.
C15_InitIdempotent ==
    [][(InitScheduler /\ Initialized(scheduler)) =>
         /\ call'.result = "warning"
         /\ call'.returned = scheduler.instance
         /\ scheduler' = scheduler
         /\ get_scheduled_jobs' = get_scheduled_jobs]_vars

\* init_scheduler has returned the running scheduler, its jobs in place
C15_Witness ==
    /\ call = Call("warning", 1)
    /\ Running(scheduler) /\ scheduler.listeners = 2
    /\ scheduler.store # {}

\* C16: while the scheduler is uninitialized, pause_job, resume_job,
\* remove_job, run_job_now, start_scheduler and the schedule_*_job functions
\* raise the not-initialized RuntimeError, leave the scheduler uninitialized,
\* create no job and write no TaskLog row.
C16_UninitializedRaises ==
    [][(/\ ~Initialized(scheduler)
        /\ \/ \E id \in JobIds : pause_job(id) \/ resume_job(id) \/ remove_job(id)
           \/ \E i \in Invs, id \in JobIds, fault \in InitFaults : run_job_now(i, id, fault)
           \/ start_scheduler
           \/ \E id \in DefaultJobs : schedule_job(id)
           \/ schedule_all_jobs) =>
         /\ call'.result = "RuntimeError"
         /\ ~Initialized(scheduler')
         /\ get_scheduled_jobs' = {}
         /\ scheduler'.pending = <<>> /\ scheduler'.store = {}
         /\ task_logs' = task_logs
         /\ inv' = inv]_vars

\* a call has raised on the missing scheduler
C16_Witness ==
    /\ call.result = "RuntimeError"
    /\ ~Initialized(scheduler)
    /\ task_logs = <<>>

\* C17: start_scheduler on a running scheduler starts nothing and raises
\* nothing, stop_scheduler on a scheduler that is not running or not
\* initialized shuts nothing down and raises nothing; both leave the
\* scheduler and its job table as they are.
C17_StartStopNoOps ==
    [][/\ (start_scheduler /\ Running(scheduler)) =>
            /\ call'.result = "warning"
            /\ scheduler' = scheduler
       /\ ((\E wait \in BOOLEAN : stop_scheduler(wait)) /\ ~Running(scheduler)) =>
            /\ call'.result = "warning"
            /\ scheduler' = scheduler]_vars

\* start_scheduler has returned from a scheduler that was already running
C17_Witness ==
    /\ call = Call("warning", 0)
    /\ Running(scheduler)
    /\ scheduler.store # {}

\* C18: the lifecycle only moves forward, uninitialized -> initialized ->
\* started -> stopped; the scheduler's thread fires only while it is started,
\* and a scheduler that stop_scheduler has stopped is never started again.
Phase(s) ==
    CASE ~Initialized(s) -> 0
      [] Running(s) -> 2
      [] s.shut -> 3
      [] OTHER -> 1

C18_LifecycleForward ==
    [][/\ Phase(scheduler') >= Phase(scheduler)
       /\ TriggerFires => Phase(scheduler) = 2]_vars

\* C19: from pause_job(id) to the next resume_job(id) the job has no
\* forthcoming firing: the table shows its next_run_time as "N/A" and the
\* scheduler's thread does not fire it; resume_job(id) gives it a time again;
\* after remove_job(id) the job is not in the table.
Shown(id) == {e \in get_scheduled_jobs : e.id = id}
IsPaused(id) == \E j \in get_jobs(scheduler) : j.id = id /\ j.next_run_time = "none"

C19_PausedJobDoesNotFire ==
    [][\A id \in JobIds :
         /\ (pause_job(id) /\ call'.result = "ok") =>
              /\ IsPaused(id)'
              /\ \A e \in Shown(id)' : e.next_run_time = "N/A"
         /\ (IsPaused(id) /\ ~resume_job(id)) =>
              /\ \A e \in Shown(id)' : e.next_run_time = "N/A"
              /\ ~(TriggerFires /\ fired'.id = id)
         /\ (resume_job(id) /\ call'.result = "ok") =>
              \E e \in Shown(id)' : e.next_run_time = "time"
         /\ (remove_job(id) /\ call'.result = "ok") => Shown(id)' = {}]_vars

\* C20: job ids are unique in the job table after any sequence of calls, so
\* that however often the schedule functions are called there is one job of
\* each id.
C20_JobIdsUnique ==
    \A j1, j2 \in get_jobs(scheduler) : j1.id = j2.id => j1 = j2

\* ------------------------------------------------------------ the executor

\* the slots of inv in which a run time of job id was started by a worker
FiringSlots(id) == {f.slot : f \in {g \in firings.fates : g.id = id /\ g.fate = "started"}}
\* the trigger-driven firings of job id that are executing
Executing(id) == {i \in FiringSlots(id) : inv[i].pc # "done"}
\* run time n of job id is waiting in the executor
Queued(id, n) ==
    \E sub \in executor.subs : sub.id = id /\ \E m \in 1..Len(sub.times) : sub.times[m] = n
FatesOf(id, n) == {f \in firings.fates : f.id = id /\ f.n = n}
\* the scheduler's thread looks at job id in this step
Processed(id) == firings'.next[id] > firings.next[id]
\* the run times it finds passed
Found_RunTimes(id) == firings.next[id]..(firings'.next[id] - 1)

\* C21: at most max_instances (3) trigger-driven firings of the same job are
\* executing at any moment; a run time that comes due while three firings of
\* its job are executing is skipped, neither queued nor executed later; and a
\* job none of whose firings is under way is submitted whatever the other
\* jobs are doing.
C21_AtMostMaxInstances ==
    [][/\ \A id \in DefaultJobs : Cardinality(Executing(id)') <= 3
       /\ \A id \in DefaultJobs :
             (Processed(id) /\ Cardinality(Executing(id)) >= 3) =>
                /\ \A n \in Found_RunTimes(id) :
                      /\ \E f \in FatesOf(id, n)' : f.fate = "skipped"
                      /\ ~Queued(id, n)'
                /\ Executing(id)' = Executing(id)
       /\ \A id \in DefaultJobs, n \in 1..MaxRunTimes :
             (\E f \in FatesOf(id, n) : f.fate = "skipped") =>
                /\ FatesOf(id, n)' = FatesOf(id, n)
                /\ ~Queued(id, n)'
       /\ \A id \in DefaultJobs :
             (Processed(id) /\ executor.instances[id] = 0) =>
                \A n \in Found_RunTimes(id) : Queued(id, n)' /\ FatesOf(id, n)' = {}]_vars

\* three firings of the backup job are executing, its fourth run time has been
\* skipped, and a firing of the cleanup job has started meanwhile
C21_Witness ==
    /\ Cardinality(Executing("backup_job")) = 3
    /\ \E f \in firings.fates : f.id = "backup_job" /\ f.fate = "skipped" /\ f.n = 4
    /\ Cardinality(Executing("cleanup_job")) = 1

\* the run times whose fate is settled in this step
NewFates == firings'.fates \ firings.fates
StartedRuns == {f \in firings.fates : f.fate = "started"}

\* C22: a run time a worker takes up is started only if it is at most
\* misfire_grace_time (60 seconds) late and is dropped otherwise; with
\* coalesce off no run time is collapsed into another, each one within the
\* grace time being executed in a call of its own; and dropping a run time
\* ends no execution in progress.
C22_GraceDecidesStart ==
    [][/\ \A f \in firings'.fates :
             /\ f.fate = "started" => f.late <= 60
             /\ f.fate = "missed" => f.late > 60
             /\ f.fate # "coalesced"
       /\ \A f, g \in StartedRuns' : f.slot = g.slot => f = g
       /\ \A f \in NewFates :
             /\ f.fate = "started" =>
                   /\ inv[f.slot].pc = "idle"
                   /\ inv'[f.slot].fn = "execute_task_with_logging"
                   /\ \A i \in DOMAIN inv : i # f.slot => inv'[i] = inv[i]
             /\ f.fate = "missed" => inv' = inv /\ task_logs' = task_logs]_vars

\* two run times of the 30-second job had passed at one wake-up and each was
\* run on its own, 60 and 30 seconds late, while a run time 61 seconds late
\* was dropped
C22_Witness ==
    /\ \E f, g \in StartedRuns :
          /\ f.id = g.id /\ f.n + 1 = g.n /\ f.slot # g.slot
          /\ f.late = 60 /\ g.late = 30
    /\ \E f \in firings.fates : f.fate = "missed" /\ f.late = 61

\* the firing run in slot i ends in this step with an exception
FiringRaises(i) ==
    /\ \E f \in StartedRuns' : f.slot = i
    /\ inv[i].pc # "done" /\ inv'[i].pc = "done" /\ inv'[i].escaped
InStore(s, id) == \E j \in s.store : j.id = id /\ j.next_run_time = "set"

\* C23: when a firing of a job ends with an exception, and when the error
\* listener is told of it, the scheduler stays started and the job stays in
\* the job table with a next run time; the instance the firing held is given
\* back, so that later run times of the job are submitted as before.
C23_ExceptionKeepsJob ==
    [][/\ \A i \in DOMAIN inv :
             FiringRaises(i) =>
                /\ scheduler' = scheduler
                /\ Running(scheduler')
                /\ \A f \in StartedRuns' : f.slot = i => InStore(scheduler', f.id)
       /\ \A sub \in executor.subs :
             (run_job_success(sub) /\ sub.errors > 0) =>
                /\ scheduler' = scheduler
                /\ Running(scheduler')
                /\ InStore(scheduler', sub.id)
                /\ DueJobs(scheduler') = DueJobs(scheduler)
                /\ executor'.instances[sub.id] = executor.instances[sub.id] - 1
                /\ ~AtCap(executor', sub.id)]_vars

\* a firing of a job ended with an exception and a later run time of the same
\* job was run to its end, the scheduler still running
C23_Witness ==
    /\ Running(scheduler)
    /\ \E f, g \in StartedRuns :
          /\ f.id = g.id /\ f.n < g.n
          /\ inv[f.slot].escaped
          /\ inv[g.slot].pc = "done" /\ ~inv[g.slot].escaped
          /\ InStore(scheduler, f.id)
          /\ executor.instances[f.id] = 0

\* ------------------------------------------------------------ run_job_now

\* the job table has a job of that id
InTable(id) == \E j \in get_jobs(scheduler) : j.id = id
\* run_job_now(id) is called in this step over a healthy database, its task to
\* run in slot i
RunNowCalled(i, id) == run_job_now(i, id, "none")

\* C24: run_job_now(id) on a job of the table calls the job's function once,
\* in the caller's thread and not through the executor, with the job's task
\* type, whether or not the scheduler is started and the job paused, and
\* leaves the job table as it is.
C24_RunNowCallsOnce ==
    [][\A i \in Firings, id \in JobIds :
          (Initialized(scheduler) /\ InTable(id) /\ RunNowCalled(i, id)) =>
             /\ call'.result = "called"
             /\ inv[i].pc = "idle"
             /\ inv'[i].fn = "execute_task_with_logging"
             /\ \E j \in get_jobs(scheduler) : j.id = id /\ j.task_type = inv'[i].task_type
             /\ \A k \in DOMAIN inv : k # i => inv'[k] = inv[k]
             /\ scheduler' = scheduler
             /\ get_scheduled_jobs' = get_scheduled_jobs
             /\ executor' = executor /\ firings' = firings]_vars

\* a paused job of a scheduler that is not started has been run by hand, to
\* its end, and is still paused
C24_Witness ==
    /\ fired.kind = "manual"
    /\ ~Running(scheduler)
    /\ IsPaused(fired.id)
    /\ inv[fired.slot].pc = "done"
    /\ inv[fired.slot].task_type = JobTask(fired.id)
    /\ Len(task_logs) = 1 /\ task_logs[1].status = "completed"

\* C25: run_job_now(id) with an id that is not in the job table raises the
\* job-not-found ValueError, runs no task, writes no TaskLog row, sends no
\* alert and leaves the job table as it is.
C25_RunNowUnknownId ==
    [][\A i \in Firings, id \in JobIds :
          (Initialized(scheduler) /\ ~InTable(id) /\ RunNowCalled(i, id)) =>
             /\ call'.result = "ValueError"
             /\ inv' = inv
             /\ task_logs' = task_logs
             /\ alerts' = alerts /\ fallback' = fallback
             /\ scheduler' = scheduler
             /\ fired' = fired]_vars

\* run_job_now has raised for an id the table does not have, the table holding
\* other jobs
C25_Witness ==
    /\ call.result = "ValueError"
    /\ Initialized(scheduler)
    /\ ~InTable("no_such_job")
    /\ get_jobs(scheduler) # {}
    /\ task_logs = <<>>

\* C26: run_job_now(id) returns to its caller what the job's function
\* returned, the result a firing of the job produces: a structure with a
\* status.
C26_RunNowReturnsResult ==
    (fired.kind = "manual" /\ inv[fired.slot].pc = "done" /\ ~inv[fired.slot].escaped) =>
        /\ run_job_now_returns(inv[fired.slot].returned) = inv[fired.slot].returned
        /\ run_job_now_returns(inv[fired.slot].returned).status \in {"success", "failed"}

\* ------------------------------------------------------------ the factory

\* C27: register makes the class given the one its lower-cased key names;
\* create(t) returns a new instance of the class registered under the
\* lower-cased t when that key is registered, and otherwise raises the error
\* that names t and lists the registered types, building no task and leaving
\* the registry as it is.
C27_CreateLastRegistered ==
    [][/\ \A t \in TypeNames, c \in Classes :
             (register(t, c) /\ IsTaskSubclass(c)) =>
                /\ Get(registry', Lower(t)) = c
                /\ \A k \in 1..Len(registry) :
                      registry[k].key # Lower(t) => registry'[k] = registry[k]
       /\ \A t \in TypeNames :
             create(t) =>
                /\ registry' = registry
                /\ IF HasKey(registry, Lower(t))
                   THEN /\ task'.made = "instance"
                        /\ task'.cls = Get(registry, Lower(t))
                        /\ task'.count = task.count + 1
                        /\ task'.status = "pending"
                   ELSE /\ task'.made = "ValueError"
                        /\ task'.msg.names = t
                        /\ task'.msg.lists = Keys(registry)
                        /\ task'.count = task.count]_vars

\* C28: for every registered type, create(type).execute() raises nothing and
\* returns a dict whose status is success or failed, an exception inside
\* execute becoming the failed result that carries its text; the task's own
\* status goes pending, running, completed with a success result and
\* pending, running, failed otherwise.
C28_ExecuteNeverRaises ==
    [][/\ \A t \in TypeNames :
             (create(t) /\ HasKey(registry, Lower(t))) =>
                /\ task'.made = "instance"
                /\ task'.history = <<"pending">>
       /\ log_start => task'.history = <<"pending", "running">>
       /\ \A ok \in BOOLEAN :
             execute(ok) =>
                /\ ~task'.raised
                /\ task'.result.status \in {"success", "failed"}
                /\ task'.result.status = "success"
                      => task'.history = <<"pending", "running", "completed">>
                /\ task'.result.status = "failed"
                      => /\ task'.history = <<"pending", "running", "failed">>
                         /\ task'.result.error = ErrLong]_vars

\* ------------------------------------------------- sessions and rows left

\* C29: an execute_task call that has ended has no session still open and no
\* row of its own still in status running.
C29_SessionClosedNoRowRunning ==
    \A i \in DOMAIN inv :
       (Service(i) /\ Done(i)) =>
          /\ inv[i].session # "open"
          /\ \A id \in RowsBy(i) : task_logs[id].status # "running"

\* ------------------------------------------------- concurrent executions

\* the executions whose INSERT reached the table
Logged == {i \in DOMAIN inv : inv[i].pc # "idle" /\ inv[i].init_fault \in {"none", "refresh"}}
\* the row id execution i holds
Held(i) == inv[i].task_log_id
\* the step in which execution i starts, and a later step of it
Starts(i) == inv[i].pc = "idle" /\ inv'[i].pc # "idle"
Continues(i) == inv[i].pc \in {"run", "except"} /\ inv'[i].pc # inv[i].pc
\* what the finished row of execution i has to say
OwnOutcome(row, i) ==
    /\ row.task_type = inv[i].task_type
    /\ row.started_at = StartTime(i)
    /\ row.status \in {"running", "completed", "failed"}
    /\ row.status = "running" => row.completed_at = None
    /\ row.status # "running" => row.completed_at = EndTime(i)
    /\ row.status = "completed" => row.result_data = Truncate(Str(inv[i].result))
    /\ (row.status = "failed" /\ Service(i))
          => row.error_message = Truncate(GetError(inv[i].result, Unknown))
    /\ (row.status = "failed" /\ Firing(i)) => row.error_message = Truncate(inv[i].exc)
    /\ (row.status = "completed" /\ Service(i)) => inv[i].result.status = "success"
    /\ (row.status = "failed" /\ Service(i)) => inv[i].result.status # "success"

\* C30: with executions overlapping, the step that starts an execution adds
\* at most one row, its own, and changes no other; every later step of an
\* execution changes at most the row it holds, which it created; no two
\* executions hold the same row; the table has one row for each execution
\* whose INSERT was committed; and every row carries the type, the times and
\* the outcome of the execution that created it.
C30_StepsOwnRow ==
    \A i \in DOMAIN inv :
       /\ Starts(i) =>
             /\ \A r \in Rows : task_logs'[r] = task_logs[r]
             /\ Len(task_logs') \in {Len(task_logs), Len(task_logs) + 1}
             /\ Len(task_logs') = Len(task_logs) + 1
                   => task_logs'[Len(task_logs')].by = i
             /\ Held(i)' # None => /\ Held(i)' = Len(task_logs')
                                   /\ Len(task_logs') = Len(task_logs) + 1
       /\ Continues(i) =>
             IF Held(i) = None THEN task_logs' = task_logs
             ELSE /\ task_logs[Held(i)].by = i
                  /\ OthersUntouched(Held(i))

C30_RowsOwnOutcome ==
    /\ Len(task_logs) = Cardinality(Logged)
    /\ \A i \in Logged : Cardinality(RowsBy(i)) = 1
    /\ \A i, j \in DOMAIN inv :
          (i # j /\ Held(i) # None /\ Held(j) # None) => Held(i) # Held(j)
    /\ \A id \in Rows : OwnOutcome(task_logs[id], task_logs[id].by)

====
